---- MODULE Spec2Model ----
(***************************************************************************)
(* State-machine model of the rag front-end: the question form             *)
(* (QuestionInput.tsx), the upload control (DocumentUpload.tsx), the       *)
(* stats panel (StatsPanel) with its SWR cache entry for KEYS.stats, and   *)
(* the App component that joins them through window events.                *)
(*                                                                         *)
(* Views (what a component's render function returns) are operators of     *)
(* the component state.  The `disabled` props that gate user input are     *)
(* the props of the last committed render: a setState made outside a       *)
(* React event handler is committed by a later task, so they lag.          *)
(*                                                                         *)
(* Timers are modelled by their firing: a timer that is armed fires at     *)
(* some later step, so every order of timer firings and responses that     *)
(* the delays allow is explored (and some that only other delays allow).   *)
(***************************************************************************)
EXTENDS Integers, Sequences, FiniteSets, TLC

\* ---------------------------------------------------------------- bounds
\* The requests the page sends in all (GET /stats, POST /query and POST
\* /documents/upload), the first GET /stats included.
MaxRequests == 4
\* The files the user selects while an upload is outstanding.
MaxDropped == 1

\* ------------------------------------------------------- program constants
MinQuestionLen == 1
MaxQuestionLen == 2000
\* swrConfig and useStats options
dedupingInterval == 2000
errorRetryCount == 3
refreshInterval == 5000

\* ------------------------------------------------------------ value sets
Null == [kind |-> "null"]

\* The values of the question field at a submission, by text and length; the
\* field has no value (given is FALSE) until the user types into it.
Questions ==
  { [text |-> "", len |-> 0, given |-> FALSE],
    [text |-> "", len |-> 0, given |-> TRUE],
    [text |-> "q1", len |-> 1, given |-> TRUE],
    [text |-> "q2", len |-> 2000, given |-> TRUE],
    [text |-> "q3", len |-> 2001, given |-> TRUE] }

\* AnswerResponse payloads the backend can return for a question. confidence is
\* a fraction of 1, held in thousandths: 876 is 0.876.
AnswerResponses(body) ==
  { [kind |-> "data", question |-> body.question, answer |-> "a1", sources |-> << >>,
     confidence |-> 0],
    [kind |-> "data", question |-> body.question, answer |-> "a2",
     sources |-> << "doc.pdf" >>, confidence |-> 876] }

\* StatsResponse payloads the backend can return.
StatsResponses ==
  { [kind |-> "data", total_documents |-> n, collection_name |-> "documents",
     embedding_model |-> "nomic-embed-text", llm_model |-> "llama3"] : n \in {1, 2} }

\* What antd's Upload hands to onChange as info.file: with beforeUpload
\* returning false it is a File clone of the selection (a Blob where the File
\* constructor is missing); originFileObj is not set on it.
UploadFiles ==
  { [name |-> n, isFile |-> TRUE, originFileObj |-> Null] : n \in {"a.pdf", "b.txt"} }
    \cup { [name |-> "a.pdf", isFile |-> FALSE, originFileObj |-> Null] }

\* DocumentUploadResponse payloads the backend can return for an uploaded file.
UploadResponses(name) ==
  { [kind |-> "data", success |-> TRUE, message |-> "ok", filename |-> name,
     chunks_created |-> 3] }
    \cup { [kind |-> "data", success |-> FALSE, message |-> m] : m \in {"", "Unsupported file"} }

VARIABLES
  timestamp,        \* SWR's global getTimestamp() counter
  queryInflight,    \* POST /query requests in flight
  askDitchUntil,    \* useSWRMutation: ditchMutationsUntilRef of useAskQuestion
  askIsMutating,    \* useSWRMutation: isMutating of useAskQuestion
  formDisabled,     \* committed `disabled` prop of the question Form
  formErrors,       \* rule messages the Form shows under the question field
  latestAnswer,     \* App: useState latestAnswer
  lastDetail,       \* detail of the most recently dispatched 'answerReceived'
  lastAnswerData,   \* payload of the most recently completed successful query
  nSubmits,         \* times the Form called onFinish
  queryPosts,       \* POST /query requests sent
  toastCount,       \* message.success and message.error calls so far
  lastToast,        \* the last notification shown
  FETCH,            \* SWR: FETCH[KEYS.stats], the request marker used to dedupe
  statsInflight,    \* GET /stats requests in flight
  cache,            \* SWR cache entry of KEYS.stats: data, error, isValidating, isLoading
  refreshTimer,     \* useSWR refreshInterval timer of useStats
  retryTimers,      \* onErrorRetry timers that are armed, by retry count
  statsStarted,     \* stamp of the most recently started GET /stats
  freshStatsData,   \* payload of the last successful GET /stats that was not superseded
  isProcessingRef,  \* DocumentUpload: isProcessingRef.current
  uploadInflight,   \* POST /documents/upload requests in flight
  uploadDitchUntil, \* useSWRMutation: ditchMutationsUntilRef of useUploadDocument
  uploadIsMutating, \* useSWRMutation: isMutating of useUploadDocument
  uploadDisabled,   \* committed `disabled` prop of the Upload control
  nSelections,      \* File objects antd handed to onChange
  uploadPosts,      \* POST /documents/upload requests sent
  uploadEvents      \* 'documentUploaded' events dispatched

queryVars == << queryInflight, askDitchUntil, askIsMutating, formDisabled, formErrors,
                latestAnswer, lastDetail, lastAnswerData, nSubmits, queryPosts >>
toastVars == << toastCount, lastToast >>
statsVars == << FETCH, statsInflight, cache, refreshTimer, retryTimers,
                statsStarted, freshStatsData >>
uploadVars == << isProcessingRef, uploadInflight, uploadDitchUntil, uploadIsMutating,
                 uploadDisabled, nSelections, uploadPosts, uploadEvents >>
vars == << timestamp, queryVars, toastVars, statsVars, uploadVars >>

\* How many more requests the bound leaves, keeping one GET /stats for every
\* upload in flight (a successful upload makes App revalidate the stats).
RequestsLeft ==
  MaxRequests - timestamp - Cardinality(uploadInflight)

\* ------------------------------------------------------------ notifications
\* antd message.success(content) / message.error(content)
Toast(type, text, args) ==
  /\ toastCount' = toastCount + 1
  /\ lastToast' = [kind |-> "toast", type |-> type, text |-> text, args |-> args]

\* =========================================================== question form
\* Form.Item rules with a maximum only.
FormRulesPassNoMin(q) ==
  /\ q.len <= MaxQuestionLen

\* Form.Item rules: required, min 1, max 2000; onFinish runs only when they pass.
FormRulesPass(q) ==
  /\ q.given
  /\ q.len > 0
  /\ q.len >= MinQuestionLen
  /\ q.len <= MaxQuestionLen

\* The messages of the rules q fails, which the Form shows under the field.
\* The min and max rules are not applied to a field without a value.
FormRuleErrors(q) ==
  (IF ~q.given \/ q.len = 0 THEN << "Please enter your question" >> ELSE << >>)
    \o (IF q.given /\ q.len > 0 /\ q.len < MinQuestionLen
          THEN << "Question must be at least 1 character" >> ELSE << >>)
    \o (IF q.given /\ q.len > MaxQuestionLen
          THEN << "Question must not exceed 2000 characters" >> ELSE << >>)

\* askQuestion(question): api.post('/query', { question })
askQuestion(startedAt, question) ==
  [startedAt |-> startedAt, url |-> "/query", body |-> [question |-> question]]

\* handleSubmit up to its await: useSWRMutation's trigger stamps the mutation,
\* sets isMutating and calls the fetcher, which sends the POST.
handleSubmit(values) ==
  /\ timestamp' = timestamp + 1
  /\ askDitchUntil' = timestamp'
  /\ askIsMutating' = TRUE
  /\ queryInflight' = queryInflight \cup {askQuestion(timestamp', values.question)}
  /\ queryPosts' = queryPosts + 1
  /\ UNCHANGED << formDisabled, latestAnswer, lastDetail, lastAnswerData, toastVars >>

\* The user submits the form with question q.
Submit(q) ==
  /\ ~formDisabled
  /\ RequestsLeft >= 1
  /\ IF FormRulesPass(q)
       THEN /\ nSubmits' = nSubmits + 1
            /\ formErrors' = << >>
            /\ handleSubmit([question |-> q.text])
       ELSE /\ formErrors' = FormRuleErrors(q)
            /\ UNCHANGED << timestamp, queryInflight, askDitchUntil, askIsMutating,
                            formDisabled, latestAnswer, lastDetail, lastAnswerData,
                            nSubmits, queryPosts, toastVars >>
  /\ UNCHANGED << statsVars, uploadVars >>

\* What `await trigger(arg)` gives handleSubmit / handleUpload when the request
\* stamped startedAt ends with resp: the data, a throw, or (for a failed request
\* that a newer trigger has ditched) undefined.
TriggerOutcome(ditchUntil, startedAt, resp) ==
  IF resp.kind = "data" THEN resp
  ELSE IF ditchUntil <= startedAt THEN [kind |-> "throw"]
  ELSE [kind |-> "undefined"]

\* isMutating after the request stamped startedAt ended.
TriggerIsMutating(ditchUntil, startedAt, isMutating) ==
  IF ditchUntil <= startedAt THEN FALSE ELSE isMutating

\* The detail handleSubmit puts into the 'answerReceived' event.
AnswerDetail(result) ==
  [kind |-> "answer", question |-> result.question, answer |-> result.answer,
   sources |-> result.sources]

\* A listener that keeps the first answer it was given.
handleAnswerReceivedOnce(detail) ==
  latestAnswer' = IF latestAnswer = Null THEN detail ELSE latestAnswer

\* App.handleAnswerReceived: setLatestAnswer(e.detail)
handleAnswerReceived(detail) ==
  latestAnswer' = detail

\* handleSubmit with a catch block that shows nothing.
handleSubmitAfterSilent(result) ==
  IF result.kind = "data"
    THEN /\ lastDetail' = AnswerDetail(result)
         /\ latestAnswer' = AnswerDetail(result)
         /\ Toast("success", "Answer generated successfully!", << >>)
    ELSE UNCHANGED << lastDetail, latestAnswer, toastVars >>

\* handleSubmit after its await. Reading result.question of undefined throws,
\* so both a throw and undefined end in the catch block.
handleSubmitAfter(result) ==
  IF result.kind = "data"
    THEN /\ lastDetail' = AnswerDetail(result)
         /\ handleAnswerReceived(AnswerDetail(result))
         /\ Toast("success", "Answer generated successfully!", << >>)
    ELSE /\ UNCHANGED << lastDetail, latestAnswer >>
         /\ Toast("error", "Failed to get answer. Please try again.", << >>)

\* The POST /query request r completes with resp.
QueryRespond(r, resp) ==
  /\ r \in queryInflight
  /\ queryInflight' = queryInflight \ {r}
  /\ lastAnswerData' = IF resp.kind = "data" THEN resp ELSE lastAnswerData
  /\ askIsMutating' = TriggerIsMutating(askDitchUntil, r.startedAt, askIsMutating)
  /\ handleSubmitAfter(TriggerOutcome(askDitchUntil, r.startedAt, resp))
  /\ UNCHANGED << timestamp, askDitchUntil, formDisabled, formErrors, nSubmits,
                  queryPosts, statsVars, uploadVars >>

\* React commits QuestionInput's render: Form disabled={isLoading}.
RenderQuestionInput ==
  /\ formDisabled # askIsMutating
  /\ formDisabled' = askIsMutating
  /\ UNCHANGED << timestamp, queryInflight, askDitchUntil, askIsMutating, formErrors,
                  latestAnswer, lastDetail, lastAnswerData, nSubmits, queryPosts,
                  toastVars, statsVars, uploadVars >>

\* What App renders below the question form.
AppAnswerView ==
  IF latestAnswer # Null
    THEN [show |-> "AnswerDisplay", question |-> latestAnswer.question,
          answer |-> latestAnswer.answer, sources |-> latestAnswer.sources]
    ELSE [show |-> "placeholder", text |-> "Ask a question to get started"]

\* AnswerDisplay's confidenceContent: nothing when answer.confidence is
\* undefined or 0, else (answer.confidence * 100).toFixed(0) as a percentage.
confidenceContent(answer) ==
  IF "confidence" \notin DOMAIN answer \/ answer.confidence = 0
    THEN Null
    ELSE [kind |-> "Paragraph", text |-> "Confidence: $1%",
          args |-> << (answer.confidence + 5) \div 10 >>]

\* What AnswerDisplay renders for the answer App hands it.
AnswerDisplayView ==
  IF latestAnswer = Null
    THEN Null
    ELSE [kind |-> "Card", question |-> latestAnswer.question,
          answer |-> latestAnswer.answer, sources |-> latestAnswer.sources,
          confidence |-> confidenceContent(latestAnswer)]

QueryInit ==
  /\ queryInflight = {}
  /\ askDitchUntil = 0
  /\ askIsMutating = FALSE
  /\ formDisabled = FALSE
  /\ formErrors = << >>
  /\ latestAnswer = Null
  /\ lastDetail = Null
  /\ lastAnswerData = Null
  /\ nSubmits = 0
  /\ queryPosts = 0

ToastInit ==
  /\ toastCount = 0
  /\ lastToast = Null

\* ========================================================= stats (SWR cache)
\* fetchStats(): api.get('/stats'), started by a revalidation of KEYS.stats.
\* SWR marks the key as being fetched, which is what later calls dedupe on.
fetchStats(retryCount) ==
  /\ timestamp' = timestamp + 1
  /\ FETCH' = [startAt |-> timestamp', cleanupAfter |-> -1]
  /\ statsInflight' = statsInflight \cup
       {[startAt |-> timestamp', url |-> "/stats", retryCount |-> retryCount]}
  /\ cache' = [cache EXCEPT !.isValidating = TRUE, !.isLoading = (cache.data = Null)]
  /\ statsStarted' = timestamp'

\* A revalidate that sends a request whatever the marker says.
revalidateAlways(marker, retryCount, dedupe) ==
  fetchStats(retryCount)

\* useSWR's revalidate for useStats: with dedupe, a call made while the key is
\* marked joins the marked request and sends nothing.
revalidate(marker, retryCount, dedupe) ==
  IF marker = Null \/ ~dedupe
    THEN fetchStats(retryCount)
    ELSE UNCHANGED << timestamp, FETCH, statsInflight, cache, statsStarted >>

\* The marker after the request stamped startAt ended: on success its cleanup
\* is set to run dedupingInterval later, on failure it is removed at once;
\* another request's marker is left alone.
markerAfter(marker, startAt, resp) ==
  IF marker = Null \/ marker.startAt # startAt THEN marker
  ELSE IF resp.kind = "data" THEN [marker EXCEPT !.cleanupAfter = dedupingInterval]
  ELSE Null

\* useSWR cleanupState, dedupingInterval after the marked request succeeded.
CleanupState ==
  /\ FETCH # Null
  /\ FETCH.cleanupAfter >= 0
  /\ FETCH' = Null
  /\ UNCHANGED << timestamp, statsInflight, cache, refreshTimer, retryTimers,
                  statsStarted, freshStatsData, queryVars, toastVars, uploadVars >>

\* useStats refreshInterval: the timer fires. In the error state it only re-arms;
\* otherwise it revalidates with dedupe and re-arms when that request is done.
RefreshInterval ==
  /\ refreshTimer.kind = "timer"
  /\ RequestsLeft >= 1
  /\ IF cache.error = Null
       THEN /\ revalidate(FETCH, 0, TRUE)
            /\ refreshTimer' =
                 IF FETCH = Null THEN [kind |-> "waiting", startAt |-> timestamp + 1]
                 ELSE IF \E r \in statsInflight : r.startAt = FETCH.startAt
                   THEN [kind |-> "waiting", startAt |-> FETCH.startAt]
                 ELSE [kind |-> "timer", after |-> refreshInterval]
       ELSE /\ refreshTimer' = [kind |-> "timer", after |-> refreshInterval]
            /\ UNCHANGED << timestamp, FETCH, statsInflight, cache, statsStarted >>
  /\ UNCHANGED << retryTimers, freshStatsData, queryVars, toastVars, uploadVars >>

\* The window gets focus (revalidateOnFocus) or the browser comes back online
\* (revalidateOnReconnect): both revalidate with dedupe.
FocusOrReconnect ==
  /\ RequestsLeft >= 1
  /\ revalidate(FETCH, 0, TRUE)
  /\ UNCHANGED << refreshTimer, retryTimers, freshStatsData, queryVars, toastVars,
                  uploadVars >>

\* The retry counts a timer can carry (one more than the code allows, so that
\* a timer that should not exist can be told apart).
RetryCounts == 0 .. errorRetryCount + 1

\* An onErrorRetry timer fires: revalidate({ retryCount, dedupe: true }).
ErrorRetry(retryCount) ==
  /\ retryTimers[retryCount] > 0
  /\ RequestsLeft >= 1
  /\ retryTimers' = [retryTimers EXCEPT ![retryCount] = @ - 1]
  /\ revalidate(FETCH, retryCount, TRUE)
  /\ UNCHANGED << refreshTimer, freshStatsData, queryVars, toastVars, uploadVars >>

\* An onErrorRetry that never gives up.
onErrorRetryNoLimit(timers, retried) ==
  [timers EXCEPT ![retried + 1] = @ + 1]

\* The armed retry timers after a request that was itself retry number
\* `retried` failed: the next retry is counted, and SWR's onErrorRetry gives
\* up once the count exceeds errorRetryCount.
onErrorRetry(timers, retried) ==
  IF retried + 1 > errorRetryCount
    THEN timers
    ELSE [timers EXCEPT ![retried + 1] = @ + 1]

\* A cache that forgets its data when a request fails.
cacheAfterDropData(marker, startAt, resp) ==
  IF resp.kind = "data"
    THEN IF marker = Null \/ marker.startAt # startAt
           THEN cache
           ELSE [data |-> resp, error |-> Null, isValidating |-> FALSE, isLoading |-> FALSE]
    ELSE [data |-> Null, error |-> [kind |-> "error", message |-> "Network Error"],
          isValidating |-> FALSE, isLoading |-> FALSE]

\* The cache entry after the request stamped startAt ended with resp. A
\* response to a request that is no longer the marked one is discarded; an
\* error is stored whichever request it belongs to, and the data is kept.
cacheAfter(marker, startAt, resp) ==
  IF resp.kind = "data"
    THEN IF marker = Null \/ marker.startAt # startAt
           THEN cache
           ELSE [data |-> resp, error |-> Null, isValidating |-> FALSE, isLoading |-> FALSE]
    ELSE [cache EXCEPT !.error = [kind |-> "error", message |-> "Network Error"],
                       !.isValidating = FALSE, !.isLoading = FALSE]

\* The GET /stats request r completes with resp.
StatsRespond(r, resp) ==
  /\ r \in statsInflight
  /\ statsInflight' = statsInflight \ {r}
  /\ cache' = cacheAfter(FETCH, r.startAt, resp)
  /\ FETCH' = markerAfter(FETCH, r.startAt, resp)
  /\ retryTimers' =
       IF resp.kind = "data" THEN retryTimers ELSE onErrorRetry(retryTimers, r.retryCount)
  /\ refreshTimer' =
       IF refreshTimer.kind = "waiting" /\ refreshTimer.startAt = r.startAt
         THEN [kind |-> "timer", after |-> refreshInterval]
         ELSE refreshTimer
  /\ freshStatsData' =
       IF resp.kind = "data" /\ r.startAt = statsStarted THEN resp ELSE freshStatsData
  /\ UNCHANGED << timestamp, statsStarted, queryVars, toastVars, uploadVars >>

\* A StatsPanel without the early return for the error state.
StatsPanelViewNoAlert ==
  [show |-> "Card", loading |-> cache.isLoading,
   total_documents |-> IF cache.data # Null THEN cache.data.total_documents ELSE 0,
   llm_model |-> IF cache.data # Null THEN cache.data.llm_model ELSE "-",
   embedding_model |-> IF cache.data # Null THEN cache.data.embedding_model ELSE "-",
   collection_name |-> IF cache.data # Null THEN cache.data.collection_name ELSE "-"]

\* What StatsPanel renders. antd's Card shows a skeleton in place of its
\* children while `loading` is set.
StatsPanelView ==
  IF cache.error # Null
    THEN [show |-> "Alert", message |-> "Failed to load statistics",
          description |-> cache.error.message]
    ELSE [show |-> "Card", loading |-> cache.isLoading,
          total_documents |-> IF cache.data # Null THEN cache.data.total_documents ELSE 0,
          llm_model |-> IF cache.data # Null THEN cache.data.llm_model ELSE "-",
          embedding_model |-> IF cache.data # Null THEN cache.data.embedding_model ELSE "-",
          collection_name |-> IF cache.data # Null THEN cache.data.collection_name ELSE "-"]

\* After the first commit: useStats has started its first request and armed
\* the refresh timer.
StatsInit ==
  /\ FETCH = [startAt |-> 1, cleanupAfter |-> -1]
  /\ statsInflight = {[startAt |-> 1, url |-> "/stats", retryCount |-> 0]}
  /\ cache = [data |-> Null, error |-> Null, isValidating |-> TRUE, isLoading |-> TRUE]
  /\ refreshTimer = [kind |-> "timer", after |-> refreshInterval]
  /\ retryTimers = [c \in RetryCounts |-> 0]
  /\ statsStarted = 1
  /\ freshStatsData = Null

\* ============================================================ upload control
\* A listener that revalidates the way a focus event does, with dedupe.
handleDocumentUploadedDeduped ==
  revalidate(FETCH, 0, TRUE)

\* App.handleDocumentUploaded: mutate(KEYS.stats). SWR removes the key's request
\* marker and revalidates without dedupe.
handleDocumentUploaded ==
  revalidate(Null, 0, FALSE)

\* An uploadDocument that appends the file without its name.
uploadDocumentUnnamed(startedAt, file) ==
  [startedAt |-> startedAt, url |-> "/documents/upload",
   contentType |-> "multipart/form-data", form |-> [file |-> "blob"]]

\* uploadDocument(file): the file as multipart field 'file' of a POST.
uploadDocument(startedAt, file) ==
  [startedAt |-> startedAt, url |-> "/documents/upload",
   contentType |-> "multipart/form-data", form |-> [file |-> file.name]]

\* A handleUpload without the isProcessingRef guard.
handleUploadUnguarded(info) ==
  LET file == IF info.file.originFileObj # Null THEN info.file.originFileObj ELSE info.file
  IN IF ~file.isFile
       THEN UNCHANGED << timestamp, isProcessingRef, uploadInflight, uploadDitchUntil,
                         uploadIsMutating, uploadPosts >>
       ELSE /\ isProcessingRef' = TRUE
            /\ timestamp' = timestamp + 1
            /\ uploadDitchUntil' = timestamp'
            /\ uploadIsMutating' = TRUE
            /\ uploadInflight' = uploadInflight \cup {uploadDocument(timestamp', file)}
            /\ uploadPosts' = uploadPosts + 1

\* The part of handleUpload before its await, for onChange's info.
handleUpload(info) ==
  LET file == IF info.file.originFileObj # Null THEN info.file.originFileObj ELSE info.file
  IN IF isProcessingRef \/ ~file.isFile
       THEN UNCHANGED << timestamp, isProcessingRef, uploadInflight, uploadDitchUntil,
                         uploadIsMutating, uploadPosts >>
       ELSE /\ isProcessingRef' = TRUE
            /\ timestamp' = timestamp + 1
            /\ uploadDitchUntil' = timestamp'
            /\ uploadIsMutating' = TRUE
            /\ uploadInflight' = uploadInflight \cup {uploadDocument(timestamp', file)}
            /\ uploadPosts' = uploadPosts + 1

\* The user selects a file in the Upload control; antd calls onChange once.
SelectFile(f) ==
  /\ ~uploadDisabled
  /\ (isProcessingRef /\ f.isFile) => nSelections - uploadPosts < MaxDropped
  /\ (~isProcessingRef /\ f.isFile) => RequestsLeft >= 2
  /\ nSelections' = IF f.isFile THEN nSelections + 1 ELSE nSelections
  /\ handleUpload([file |-> f, fileList |-> << f >>])
  /\ UNCHANGED << uploadDisabled, uploadEvents, statsVars, toastVars, queryVars >>

\* A handleUpload that shows the backend's message as it is, empty or not.
handleUploadAfterNoFallback(result) ==
  /\ IF result.kind = "data" /\ result.success
       THEN /\ Toast("success", "Document uploaded successfully! File: $1, Chunks: $2",
                       << result.filename, result.chunks_created >>)
            /\ uploadEvents' = uploadEvents + 1
            /\ handleDocumentUploaded
       ELSE /\ IF result.kind = "data"
                 THEN Toast("error", result.message, << >>)
                 ELSE Toast("error", "Failed to upload document. Please try again.",
                            << >>)
            /\ UNCHANGED << uploadEvents, timestamp, FETCH, statsInflight, cache,
                            statsStarted >>
  /\ isProcessingRef' = FALSE

\* handleUpload after its await: the notification, the 'documentUploaded'
\* event (App's listener runs inside dispatchEvent) and the finally block.
handleUploadAfter(result) ==
  /\ IF result.kind = "data" /\ result.success
       THEN /\ Toast("success", "Document uploaded successfully! File: $1, Chunks: $2",
                       << result.filename, result.chunks_created >>)
            /\ uploadEvents' = uploadEvents + 1
            /\ handleDocumentUploaded
       ELSE /\ IF result.kind = "data"
                 THEN Toast("error", IF result.message # "" THEN result.message
                                     ELSE "Upload failed", << >>)
                 ELSE Toast("error", "Failed to upload document. Please try again.",
                            << >>)
            /\ UNCHANGED << uploadEvents, timestamp, FETCH, statsInflight, cache,
                            statsStarted >>
  /\ isProcessingRef' = FALSE

\* The POST /documents/upload request r completes with resp.
UploadRespond(r, resp) ==
  /\ r \in uploadInflight
  /\ uploadInflight' = uploadInflight \ {r}
  /\ uploadIsMutating' = TriggerIsMutating(uploadDitchUntil, r.startedAt, uploadIsMutating)
  /\ handleUploadAfter(TriggerOutcome(uploadDitchUntil, r.startedAt, resp))
  /\ UNCHANGED << uploadDitchUntil, uploadDisabled, nSelections, uploadPosts, refreshTimer,
                  retryTimers, freshStatsData, queryVars >>

\* React commits DocumentUpload's render: Upload disabled={isLoading}.
RenderDocumentUpload ==
  /\ uploadDisabled # uploadIsMutating
  /\ uploadDisabled' = uploadIsMutating
  /\ UNCHANGED << timestamp, isProcessingRef, uploadInflight, uploadDitchUntil,
                  uploadIsMutating, nSelections, uploadPosts, uploadEvents, statsVars,
                  toastVars, queryVars >>

UploadInit ==
  /\ isProcessingRef = FALSE
  /\ uploadInflight = {}
  /\ uploadDitchUntil = 0
  /\ uploadIsMutating = FALSE
  /\ uploadDisabled = FALSE
  /\ nSelections = 0
  /\ uploadPosts = 0
  /\ uploadEvents = 0

\* ============================================================ specifications
Init ==
  /\ timestamp = 1
  /\ QueryInit
  /\ ToastInit
  /\ StatsInit
  /\ UploadInit

\* The questions the Form accepts.
AcceptedQuestions == { q \in Questions : FormRuleErrors(q) = << >> }

\* The whole page, with a user whose questions pass the rules of the form.
Next ==
  \/ \E q \in AcceptedQuestions : Submit(q)
  \/ \E r \in queryInflight :
       \E resp \in AnswerResponses(r.body) \cup {[kind |-> "error"]} :
         QueryRespond(r, resp)
  \/ RenderQuestionInput
  \/ CleanupState
  \/ RefreshInterval
  \/ FocusOrReconnect
  \/ \E c \in RetryCounts : ErrorRetry(c)
  \/ \E r \in statsInflight :
       \E resp \in StatsResponses \cup {[kind |-> "error"]} :
         StatsRespond(r, resp)
  \/ \E f \in UploadFiles : SelectFile(f)
  \/ \E r \in uploadInflight :
       \E resp \in UploadResponses(r.form.file) \cup {[kind |-> "error"]} :
         UploadRespond(r, resp)
  \/ RenderDocumentUpload

Spec == Init /\ [][Next]_vars

\* The question form and the answer below it, with a user who submits any
\* question, accepted or not; the rest of the page is left as it starts.
NextForm ==
  \/ \E q \in Questions : Submit(q)
  \/ \E r \in queryInflight :
       \E resp \in AnswerResponses(r.body) \cup {[kind |-> "error"]} :
         QueryRespond(r, resp)
  \/ RenderQuestionInput

SpecForm == Init /\ [][NextForm]_vars

\* ==================================================================== claims
NetworkError == [kind |-> "error"]

\* A valid question is submitted / a request completes.
ValidSubmitStep == \E q \in Questions : FormRulesPass(q) /\ Submit(q)
QueryDoneStep ==
  \E r \in queryInflight : \E resp \in AnswerResponses(r.body) \cup {NetworkError} :
    QueryRespond(r, resp)
UploadDoneStep ==
  \E r \in uploadInflight : \E resp \in UploadResponses(r.form.file) \cup {NetworkError} :
    UploadRespond(r, resp)

\* C1: every submission of a valid question sends exactly one POST /query whose
\* body is {question} and shows nothing yet; the completion of a POST /query
\* shows exactly one notification (success or error) and sends nothing; no
\* other step sends a POST /query or shows a notification.
C1Step ==
  /\ \A q \in Questions :
       (FormRulesPass(q) /\ Submit(q)) =>
         /\ queryPosts' = queryPosts + 1
         /\ toastCount' = toastCount
         /\ \E r \in queryInflight' :
              /\ r \notin queryInflight
              /\ queryInflight' = queryInflight \cup {r}
              /\ r.url = "/query"
              /\ r.body = [question |-> q.text]
  /\ QueryDoneStep =>
       /\ toastCount' = toastCount + 1
       /\ lastToast' # Null
       /\ lastToast'.type \in {"success", "error"}
       /\ queryPosts' = queryPosts
  /\ queryPosts' # queryPosts => ValidSubmitStep
  /\ toastCount' # toastCount => QueryDoneStep \/ UploadDoneStep
  /\ queryPosts' = nSubmits'
ShownAnswerIsLatest ==
  /\ latestAnswer = lastDetail
  /\ IF lastAnswerData = Null
       THEN AppAnswerView = [show |-> "placeholder", text |-> "Ask a question to get started"]
       ELSE AppAnswerView = [show |-> "AnswerDisplay", question |-> lastAnswerData.question,
                             answer |-> lastAnswerData.answer,
                             sources |-> lastAnswerData.sources]
T_C10 ==
  /\ ShownAnswerIsLatest
  /\ [][/\ ShownAnswerIsLatest'
        /\ AppAnswerView.show = "AnswerDisplay" => AppAnswerView'.show = "AnswerDisplay"]_vars

\* An answer is shown, a second answer has replaced the first, and a later
\* query has failed.
W_C10 ==
  /\ latestAnswer # Null
  /\ latestAnswer.answer = "a2"
  /\ queryPosts = 3
  /\ queryInflight = {}
  /\ lastToast.type = "error"

\* ------------------------------------------------------------ upload claims
FileSelectStep == \E f \in UploadFiles : f.isFile /\ SelectFile(f)
UploadSuccessStep ==
  \E r \in uploadInflight : \E resp \in UploadResponses(r.form.file) :
    resp.success /\ UploadRespond(r, resp)

\* C2 as stated: every selection of a supported file sends exactly one POST
\* /documents/upload carrying that file as the multipart field 'file'.
C2EverySelectionPosts ==
  [][\A f \in UploadFiles :
       (f.isFile /\ SelectFile(f)) =>
         /\ uploadPosts' = uploadPosts + 1
         /\ \E r \in uploadInflight' :
              /\ r \notin uploadInflight
              /\ r.url = "/documents/upload"
              /\ r.form = [file |-> f.name]]_vars

\* C2: a selection of a supported file made while no upload is outstanding
\* sends exactly one POST /documents/upload, multipart, carrying that file as
\* field 'file'; a selection made while an upload is outstanding sends none;
\* nothing but a selection sends such a POST.
C2Step ==
  /\ \A f \in UploadFiles :
       (f.isFile /\ SelectFile(f)) =>
         IF uploadInflight = {}
           THEN /\ uploadPosts' = uploadPosts + 1
                /\ \E r \in uploadInflight' :
                     /\ uploadInflight' = {r}
                     /\ r.url = "/documents/upload"
                     /\ r.contentType = "multipart/form-data"
                     /\ r.form = [file |-> f.name]
           ELSE /\ uploadPosts' = uploadPosts
                /\ uploadInflight' = uploadInflight
  /\ uploadPosts' # uploadPosts => FileSelectStep
T_C2 == [][C2Step]_vars

\* A second file was selected while the first upload was outstanding: two
\* selections, one POST.
W_C2 ==
  /\ nSelections = 2
  /\ uploadPosts = 1
  /\ uploadInflight # {}
  /\ ~uploadDisabled

\* C7: every upload that completes with success=true dispatches
\* 'documentUploaded' once, and App's listener starts a new GET /stats for the
\* key useStats reads, whether or not another GET /stats is in flight.
C7Step ==
  \A r \in uploadInflight : \A resp \in UploadResponses(r.form.file) :
    (resp.success /\ UploadRespond(r, resp)) =>
      /\ uploadEvents' = uploadEvents + 1
      /\ statsStarted' = timestamp + 1
      /\ FETCH' # Null
      /\ FETCH'.startAt = statsStarted'
      /\ \E g \in statsInflight' :
           /\ g \notin statsInflight
           /\ statsInflight' = statsInflight \cup {g}
           /\ g.url = "/stats"
           /\ g.startAt = statsStarted'
T_C7 == [][C7Step]_vars

\* An upload succeeded while the first GET /stats was still in flight, and the
\* revalidation it caused is in flight next to it.
W_C7 ==
  /\ uploadEvents = 1
  /\ statsStarted = 3
  /\ \E g \in statsInflight : g.startAt = 1
  /\ \E g \in statsInflight : g.startAt = 3
  /\ lastToast.type = "success"

\* C8: an upload answered with success=false shows exactly one notification,
\* an error carrying the backend's message or 'Upload failed' when the message
\* is empty, dispatches no 'documentUploaded' and starts no GET /stats.
C8Step ==
  \A r \in uploadInflight : \A resp \in UploadResponses(r.form.file) :
    (~resp.success /\ UploadRespond(r, resp)) =>
      /\ toastCount' = toastCount + 1
      /\ lastToast' = [kind |-> "toast", type |-> "error",
                       text |-> IF resp.message = "" THEN "Upload failed" ELSE resp.message,
                       args |-> << >>]
      /\ uploadEvents' = uploadEvents
      /\ UNCHANGED << statsInflight, statsStarted, FETCH, cache >>
T_C8 == [][C8Step]_vars

\* An upload was rejected with an empty message.
W_C8 ==
  /\ lastToast # Null
  /\ lastToast.text = "Upload failed"
  /\ uploadPosts = 1
  /\ uploadEvents = 0
  /\ uploadInflight = {}

\* C9: isProcessingRef is true exactly while an upload is outstanding, and at
\* most one is; a selection that arrives while it is true sends nothing and
\* shows nothing; every completion clears it, and a selection that arrives
\* while it is false is sent.
GuardMatchesOutstanding ==
  /\ isProcessingRef <=> uploadInflight # {}
  /\ Cardinality(uploadInflight) <= 1
C9Step ==
  /\ \A f \in UploadFiles :
       (f.isFile /\ SelectFile(f)) =>
         IF isProcessingRef
           THEN UNCHANGED << timestamp, isProcessingRef, uploadInflight, uploadPosts,
                             toastVars, uploadEvents >>
           ELSE isProcessingRef' /\ uploadPosts' = uploadPosts + 1
  /\ UploadDoneStep => ~isProcessingRef' /\ uploadInflight' = {}
T_C9 ==
  /\ GuardMatchesOutstanding
  /\ [][GuardMatchesOutstanding' /\ C9Step]_vars

\* A selection was dropped by the guard, the outstanding upload then failed,
\* and a later selection was sent.
W_C9 ==
  /\ nSelections = 3
  /\ uploadPosts = 2
  /\ isProcessingRef
  /\ lastToast # Null
  /\ lastToast.type = "error"

\* ------------------------------------------------------------- stats claims
StatsFailStep == \E r \in statsInflight : StatsRespond(r, NetworkError)
QueryFailStep == \E r \in queryInflight : QueryRespond(r, NetworkError)
UploadFailStep == \E r \in uploadInflight : UploadRespond(r, NetworkError)

\* The values a Card view shows.
CardShows(view, total, llm, embedding, collection) ==
  /\ view.show = "Card"
  /\ view.total_documents = total
  /\ view.llm_model = llm
  /\ view.embedding_model = embedding
  /\ view.collection_name = collection

C4EveryFailureNotifies ==
  [][(StatsFailStep \/ QueryFailStep \/ UploadFailStep) =>
       /\ toastCount' = toastCount + 1
       /\ lastToast'.type = "error"
       /\ StatsPanelView' = StatsPanelView
       /\ AppAnswerView' = AppAnswerView]_vars

\* C4: a failed POST /query or POST /documents/upload produces exactly one
\* error notification and leaves the stats panel and the shown answer as they
\* were; a failed GET /stats produces no notification, replaces the stats
\* panel by the error alert, and leaves the cached stats and the shown answer
\* as they were.
C4Step ==
  /\ (QueryFailStep \/ UploadFailStep) =>
       /\ toastCount' = toastCount + 1
       /\ lastToast'.type = "error"
       /\ StatsPanelView' = StatsPanelView
       /\ AppAnswerView' = AppAnswerView
  /\ StatsFailStep =>
       /\ UNCHANGED toastVars
       /\ StatsPanelView' = [show |-> "Alert", message |-> "Failed to load statistics",
                             description |-> "Network Error"]
       /\ cache'.data = cache.data
       /\ AppAnswerView' = AppAnswerView
T_C4 == [][C4Step]_vars

\* Stats and an answer were displayed, then a GET /stats and a POST /query
\* failed.
W_C4 ==
  /\ cache.error # Null
  /\ cache.data # Null
  /\ latestAnswer # Null
  /\ toastCount = 2
  /\ lastToast.type = "error"
  /\ queryInflight = {}

RetryStep == \E c \in 1 .. errorRetryCount : ErrorRetry(c)
C5Step ==
  /\ queryPosts' # queryPosts => ValidSubmitStep
  /\ uploadPosts' # uploadPosts => FileSelectStep
  /\ statsStarted' # statsStarted =>
       RefreshInterval \/ FocusOrReconnect \/ UploadSuccessStep \/ RetryStep
  /\ \A r \in statsInflight :
       StatsRespond(r, NetworkError) =>
         /\ statsStarted' = statsStarted
         /\ retryTimers' =
              IF r.retryCount < errorRetryCount
                THEN [retryTimers EXCEPT ![r.retryCount + 1] = @ + 1]
                ELSE retryTimers
C6AllTriggersDeduped ==
  [][FETCH # Null => statsStarted' = statsStarted]_vars

\* C6: the key is marked from the start of the latest GET /stats until that
\* request fails or until dedupingInterval after it succeeded. While the key is
\* marked, refresh interval, focus, reconnect and error retry send nothing; the
\* manual invalidation after a successful upload always sends a GET /stats.
MarkerFollowsLatest ==
  /\ FETCH # Null => FETCH.startAt = statsStarted
  /\ (\E r \in statsInflight : r.startAt = statsStarted) =>
       FETCH # Null /\ FETCH.cleanupAfter = -1
  /\ (FETCH # Null /\ FETCH.cleanupAfter # -1) =>
       /\ FETCH.cleanupAfter = dedupingInterval
       /\ \A r \in statsInflight : r.startAt # statsStarted
C6Step ==
  /\ (FETCH # Null /\ statsStarted' # statsStarted) => UploadSuccessStep
  /\ (FETCH # Null /\ (RefreshInterval \/ FocusOrReconnect
                         \/ \E c \in RetryCounts : ErrorRetry(c))) =>
       UNCHANGED << statsInflight, statsStarted, FETCH, timestamp >>
  /\ (FETCH = Null /\ (RefreshInterval \/ FocusOrReconnect) /\ cache.error = Null) =>
       statsStarted' = timestamp + 1
  /\ \A r \in statsInflight :
       (r.startAt = statsStarted /\ StatsRespond(r, NetworkError)) => FETCH' = Null
T_C6 ==
  /\ MarkerFollowsLatest
  /\ [][MarkerFollowsLatest' /\ C6Step]_vars

\* The refresh interval fired while the first GET /stats was in flight and
\* joined it; a successful upload then sent a second one next to it.
W_C6 ==
  /\ refreshTimer = [kind |-> "waiting", startAt |-> 1]
  /\ Cardinality(statsInflight) = 2
  /\ FETCH # Null
  /\ FETCH.startAt = 3

\* ---------------------------------------------------------- question rules
\* The questions of 1 to 2000 characters.
ValidLength(q) == q.given /\ q.len >= 1 /\ q.len <= 2000

\* C11: a submission whose question is missing, empty or longer than 2000
\* characters sends no POST /query, dispatches no 'answerReceived', shows no
\* notification and leaves the shown answer as it was (the Form shows the
\* message of the failed rule instead); handleSubmit runs, and a POST /query
\* is in flight, only for questions of 1 to 2000 characters.
OnlyValidQuestionsSent ==
  \A r \in queryInflight :
    \E q \in Questions : ValidLength(q) /\ r.body = [question |-> q.text]
C11Step ==
  /\ \A q \in Questions :
       (~ValidLength(q) /\ Submit(q)) =>
         /\ UNCHANGED << timestamp, queryPosts, queryInflight, nSubmits, lastDetail,
                         latestAnswer, toastVars >>
         /\ AppAnswerView' = AppAnswerView
         /\ formErrors' # << >>
  /\ nSubmits' # nSubmits => \E q \in Questions : ValidLength(q) /\ Submit(q)
  /\ \A q \in Questions : (ValidLength(q) /\ Submit(q)) => nSubmits' = nSubmits + 1
T_C11 ==
  /\ OnlyValidQuestionsSent
  /\ [][OnlyValidQuestionsSent' /\ C11Step]_vars

\* An answer is shown and a question of 2001 characters was submitted after
\* it: one POST in all, the answer still shown.
W_C11 ==
  /\ formErrors = << "Question must not exceed 2000 characters" >>
  /\ latestAnswer # Null
  /\ queryPosts = 1
  /\ queryInflight = {}

\* C12 as stated: once a query has succeeded with a non-zero confidence, the
\* answer App displays for it shows that confidence as a percentage.
C12ConfidenceShown ==
  (lastAnswerData # Null /\ lastAnswerData.confidence # 0) =>
    /\ AnswerDisplayView # Null
    /\ AnswerDisplayView.answer = lastAnswerData.answer
    /\ AnswerDisplayView.confidence =
         [kind |-> "Paragraph", text |-> "Confidence: $1%",
          args |-> << (lastAnswerData.confidence + 5) \div 10 >>]

====
